---- MODULE Spec2Model ----
(***************************************************************************)
(* redis-lua, src/script.rs: script fragments (Info), invocable units      *)
(* ((), ScriptJoin, Chain2), the script synthesizer gen_script and the     *)
(* generated builder chain (Chain0, Chain1, Chain2, PartialChain0,         *)
(* PartialChain1).                                                         *)
(*                                                                         *)
(* A Rust string is modelled as a sequence of pieces; the empty string is  *)
(* the empty sequence and string concatenation is \o.  A piece is either a *)
(* literal text or the result of the format! call of line 102, which keeps *)
(* the argument name and the decimal digits of the index.                  *)
(***************************************************************************)
EXTENDS Integers, Sequences, FiniteSets, TLC

VARIABLES stack, invocation, gen_in, gen_out

vars == <<stack, invocation, gen_in, gen_out>>

-----------------------------------------------------------------------------
(* Bounds of the model *)

\* longest list of Info handed to gen_script directly
MaxInfos == 4
\* most values a call site holds at once
MaxStack == 3
\* most objects (chains, units, joins) a call site holds at once
MaxNodes == 8

\* usize is at least 16 bits wide; the narrowest width is kept so that the
\* wrapped value of 0 - 1 stays a number TLC can hold
UsizeBits == 16

-----------------------------------------------------------------------------
(* Strings *)

Lit(s) == [kind |-> "lit", text |-> s, index |-> <<>>]

RECURSIVE Decimal(_)
\* "{}" of an unsigned integer: its decimal digits, most significant first
Decimal(n) == IF n < 10 THEN <<n>> ELSE Decimal(n \div 10) \o <<n % 10>>

\* format!("local {} = ARGV[{}] ", arg, arg_index)
FormatLocal(arg, arg_index) ==
    [kind |-> "local", text |-> arg, index |-> Decimal(arg_index)]

\* a &str held in an Info, as a string of one piece ("" has none)
Str(s) == IF s = "" THEN <<>> ELSE <<Lit(s)>>

-----------------------------------------------------------------------------
(* Info *)

Info_new(script, body, args) == [script |-> script, body |-> body, args |-> args]

-----------------------------------------------------------------------------
(* gen_script *)

\* redis::Script::new(code), or the panic that unwinds out of gen_script
Script_new(code) == [status |-> "ok", code |-> code]
Panic(msg) == [status |-> "panic", code |-> Str(msg)]

\* a - b on usize without overflow checks
WrappingSub(a, b) == (a - b + 2 ^ UsizeBits) % (2 ^ UsizeBits)

\* let mut arg_index = 0;
ArgIndexStart == 0

\* the text of a single script: info.get(0).script
SingleBody(i) == Str(i.body)

SingleScript(i) == Str(i.script)

\* a build that puts `return ` on the first fragment
PrefixFirst(index, last) == IF index = 0 THEN Str("return ") ELSE Str("")

\* let prefix = if index == last { "return " } else { "" };
Prefix(index, last) == IF index = last THEN Str("return ") ELSE Str("")

\* a build that declares the counter inside the outer loop
InitLoopReset(args, arg_index) ==
    [init |-> [j \in 1 .. Len(args) |-> FormatLocal(args[j], j)],
     arg_index |-> Len(args)]

RECURSIVE InitLoop(_, _)
\* for arg in info.args { arg_index += 1; init += &format!(...) }
\* gives the init string and the counter after the loop
InitLoop(args, arg_index) ==
    IF args = <<>>
    THEN [init |-> <<>>, arg_index |-> arg_index]
    ELSE LET rest == InitLoop(Tail(args), arg_index + 1)
         IN  [init |-> <<FormatLocal(Head(args), arg_index + 1)>> \o rest.init,
              arg_index |-> rest.arg_index]

\* a build that emits the bindings in front of the function
FormatScope_locals_outside(prefix, init, body) ==
    init \o prefix \o Str("(function() ") \o Str(" ") \o Str(body)
         \o Str(" end)();\n")

\* format!("{}(function() {} {} end)();\n", prefix, init, info.body)
FormatScope(prefix, init, body) ==
    prefix \o Str("(function() ") \o init \o Str(" ") \o Str(body)
           \o Str(" end)();\n")

RECURSIVE ScriptLoop(_, _, _, _)
\* for (index, info) in info.iter().enumerate() { ... script += ... }
ScriptLoop(info, index, last, arg_index) ==
    IF index >= Len(info)
    THEN <<>>
    ELSE LET i == info[index + 1]
             r == InitLoop(i.args, arg_index)
         IN  FormatScope(Prefix(index, last), r.init, i.body)
               \o ScriptLoop(info, index + 1, last, r.arg_index)

\* overflow_checks: whether the build panics on integer overflow (the debug
\* profile does, the release profile wraps)
gen_script(info, overflow_checks) ==
    IF Len(info) = 1
    THEN Script_new(SingleScript(info[1]))
    ELSE IF Len(info) < 1 /\ overflow_checks
         THEN Panic("attempt to subtract with overflow")
         ELSE Script_new(ScriptLoop(info, 0, WrappingSub(Len(info), 1),
                                    ArgIndexStart))

-----------------------------------------------------------------------------
(* Inputs *)

\* fragments handed to gen_script directly: 0, 1 and 2 declared arguments,
\* the name "a" declared by two of them
GenInfos ==
    { Info_new("return 7", "return 7", <<>>),
      Info_new("local a = ARGV[1] return a", "return a", <<"a">>),
      Info_new("local a = ARGV[1] local b = ARGV[2] return a - b",
               "return a - b", <<"a", "b">>) }

RECURSIVE SeqsUpTo(_, _)
SeqsUpTo(S, n) ==
    IF n = 0 THEN {<<>>}
    ELSE LET shorter == SeqsUpTo(S, n - 1)
         IN  shorter \cup {Append(s, x) : s \in shorter, x \in S}

NotRun == [status |-> "none", code |-> <<>>]
NoInvocation == [kind |-> "none"]

-----------------------------------------------------------------------------
(* gen_script called on its own *)

InitGen ==
    /\ stack = <<>>
    /\ invocation = NoInvocation
    /\ gen_in \in SeqsUpTo(GenInfos, MaxInfos)
    /\ gen_out = NotRun

GenScript ==
    /\ gen_out = NotRun
    /\ \E overflow_checks \in BOOLEAN :
          gen_out' = gen_script(gen_in, overflow_checks)
    /\ UNCHANGED <<stack, invocation, gen_in>>

NextGen == GenScript

SpecGen == InitGen /\ [][NextGen]_vars

-----------------------------------------------------------------------------
(* Invocable units and the generated builder chain.  A value is a record    *)
(* whose kind names its Rust type; the type parameters are read off the     *)
(* fields.                                                                  *)

\* ()
Unit == [kind |-> "Unit"]

\* ScriptJoin(self, other): the tuple fields .0 and .1
ScriptJoin(s0, s1) == [kind |-> "ScriptJoin", s0 |-> s0, s1 |-> s1]

\* Script::join
Script_join(self, other) == ScriptJoin(self, other)

Chain0_new(info, inner, a1, a3) ==
    [kind |-> "Chain0", info |-> info, inner |-> inner, a1 |-> a1, a3 |-> a3]

Chain0_a(self, var) ==
    [kind |-> "Chain1", info |-> self.info, inner |-> self.inner,
     a1 |-> self.a1, a3 |-> self.a3, a2 |-> var]

Chain1_b(self, var) ==
    [kind |-> "Chain2", info |-> self.info, inner |-> self.inner,
     a1 |-> self.a1, a3 |-> self.a3, a2 |-> self.a2, a4 |-> var]

PartialChain0_new(script, next) ==
    [kind |-> "PartialChain0", script |-> script, next |-> next]

PartialChain0_a(self, var) ==
    [kind |-> "PartialChain1", chain |-> Chain0_a(self.script, var),
     next |-> self.next]

\* a build whose take appends the completed unit after the chain's own inner
Chain0_take_after(self, inner) ==
    [kind |-> "Chain0", info |-> self.info,
     inner |-> Script_join(self.inner, inner), a1 |-> self.a1, a3 |-> self.a3]

\* <Chain0 as TakeScript>::take
Chain0_take(self, inner) ==
    [kind |-> "Chain0", info |-> self.info,
     inner |-> Script_join(inner, self.inner), a1 |-> self.a1, a3 |-> self.a3]

\* <PartialChain0 as TakeScript>::take
PartialChain0_take(self, inner) ==
    [kind |-> "PartialChain0",
     script |-> [kind |-> "Chain0", info |-> self.script.info,
                 inner |-> Script_join(inner, self.script.inner),
                 a1 |-> self.script.a1, a3 |-> self.script.a3],
     next |-> self.next]

\* the take of whichever type `self` has
Take(self, inner) ==
    IF self.kind = "Chain0" THEN Chain0_take(self, inner)
    ELSE PartialChain0_take(self, inner)

\* a build that hands back the finished chain and forgets `next`
PartialChain1_b_forget(self, var) == Chain1_b(self.chain, var)

\* PartialChain1::b
PartialChain1_b(self, var) ==
    LET chain == Chain1_b(self.chain, var)
        next == self.next
    IN  Take(next, chain)

\* <Chain0 as Add<S>>::add
Chain0_add(self, other) == PartialChain0_new(self, other)

\* a build that gives PartialChain0 the Add impl of Chain0
Add_left(self, other) == PartialChain0_new(self, other)

RECURSIVE Add(_, _)
\* self + other; <PartialChain0 as Add<S2>>::add adds to its `next`
Add(self, other) ==
    IF self.kind = "Chain0" THEN Chain0_add(self, other)
    ELSE PartialChain0_new(self.script, Add(self.next, other))

-----------------------------------------------------------------------------
(* Which impls exist for a value's type *)

\* the chain piece that is given `impl Script` (and invoke)
ImplScript(kind) == kind = "Chain2"

RECURSIVE IsScript(_)
\* T: Script
IsScript(o) ==
    CASE o.kind = "Unit" -> TRUE
      [] o.kind = "ScriptJoin" -> IsScript(o.s0) /\ IsScript(o.s1)
      [] o.kind \in {"Chain0", "Chain1", "Chain2"} ->
            ImplScript(o.kind) /\ IsScript(o.inner)
      [] OTHER -> FALSE

\* T: TakeScript<I> for a Script I
IsTakeScript(o) ==
    CASE o.kind = "Chain0" -> IsScript(o.inner)
      [] o.kind = "PartialChain0" -> IsScript(o.script.inner)
      [] OTHER -> FALSE

RECURSIVE IsAdd(_)
\* T: Add<S>
IsAdd(o) ==
    CASE o.kind = "Chain0" -> TRUE
      [] o.kind = "PartialChain0" -> IsAdd(o.next)
      [] OTHER -> FALSE

RECURSIVE IsClone(_)
\* T: Clone
IsClone(o) ==
    CASE o.kind = "Unit" -> TRUE
      [] o.kind = "ScriptJoin" -> FALSE
      [] o.kind \in {"Chain0", "Chain1", "Chain2"} -> IsClone(o.inner)
      [] o.kind = "PartialChain0" -> IsClone(o.script) /\ IsClone(o.next)
      [] o.kind = "PartialChain1" -> IsClone(o.chain) /\ IsClone(o.next)
      [] OTHER -> FALSE

\* a build that generates the method `a` on the second chain piece as well
HasA_again(o) == o.kind \in {"Chain0", "Chain1", "PartialChain0"}

\* the type has a method `a`
HasA(o) == o.kind \in {"Chain0", "PartialChain0"}

\* self.a(var), of whichever type `self` has
A(self, var) ==
    IF self.kind = "PartialChain0" THEN PartialChain0_a(self, var)
    ELSE Chain0_a(self, var)

\* self.b(var), of whichever type `self` has
B(self, var) ==
    IF self.kind = "PartialChain1" THEN PartialChain1_b(self, var)
    ELSE Chain1_b(self, var)

\* a build that generates the method `b` on the last chain piece as well
HasB_again(o) ==
    CASE o.kind \in {"Chain1", "Chain2"} -> TRUE
      [] o.kind = "PartialChain1" ->
            IsScript(o.chain.inner) /\ IsTakeScript(o.next)
      [] OTHER -> FALSE

\* the type has a method `b` whose where clauses hold
HasB(o) ==
    CASE o.kind = "Chain1" -> TRUE
      [] o.kind = "PartialChain1" ->
            IsScript(o.chain.inner) /\ IsTakeScript(o.next)
      [] OTHER -> FALSE

-----------------------------------------------------------------------------
(* Script::info and Script::apply *)

\* a build whose ScriptJoin::info visits .0 twice
ScriptJoin_info_twice(info0, info1) == info0 \o info0

\* <ScriptJoin as Script>::info, from what .0 and .1 push
ScriptJoin_info(info0, info1) == info0 \o info1

\* a build whose ScriptJoin::apply leaves .0 out
ScriptJoin_apply_second(args0, args1) == args1

\* <ScriptJoin as Script>::apply, from what .0 and .1 append
ScriptJoin_apply(args0, args1) == args0 \o args1

\* a build whose Chain2::apply appends its own values before the inner's
Chain2_apply_own_first(self, inner_args) ==
    <<self.a1, self.a2, self.a3, self.a4>> \o inner_args

\* a build whose Chain2::apply leaves the last value out
Chain2_apply_three(self, inner_args) ==
    inner_args \o <<self.a1, self.a2, self.a3>>

\* <Chain2 as Script>::apply, from what the inner unit appends
Chain2_apply(self, inner_args) ==
    inner_args \o <<self.a1, self.a2, self.a3, self.a4>>

\* <Chain2 as Script>::info, from what the inner unit pushes
Chain2_info(self, inner_info) == Append(inner_info, self.info)

RECURSIVE InfoOf(_)
\* the Vec<Info> after self.info(&mut info) on an empty vector
InfoOf(o) ==
    CASE o.kind = "Unit" -> <<>>
      [] o.kind = "ScriptJoin" -> ScriptJoin_info(InfoOf(o.s0), InfoOf(o.s1))
      [] OTHER -> Chain2_info(o, InfoOf(o.inner))

RECURSIVE ApplyOf(_)
\* the arguments of the ScriptInvocation after self.apply(&mut invoke)
ApplyOf(o) ==
    CASE o.kind = "Unit" -> <<>>
      [] o.kind = "ScriptJoin" -> ScriptJoin_apply(ApplyOf(o.s0), ApplyOf(o.s1))
      [] OTHER -> Chain2_apply(o, ApplyOf(o.inner))

-----------------------------------------------------------------------------
(* invoke *)

\* what a call of invoke or invoke_async leaves: the unit it consumed, the
\* Vec<Info>, the generated script, the arguments appended to the prepared
\* invocation, the calls made to the client and what came back
Invocation(kind, self, overflow_checks, outcome) ==
    LET info == InfoOf(self)
        script == gen_script(info, overflow_checks)
    IN  IF script.status = "panic"
        THEN [kind |-> kind, self |-> self, info |-> info, script |-> script,
              args |-> <<>>, calls |-> 0, result |-> "panic"]
        ELSE [kind |-> kind, self |-> self, info |-> info, script |-> script,
              args |-> ApplyOf(self), calls |-> 1, result |-> outcome]

Script_invoke(self, overflow_checks, outcome) ==
    Invocation("invoke", self, overflow_checks, outcome)

\* a build whose invoke_async leaves out self.apply(&mut invoke)
Script_invoke_async_no_apply(self, overflow_checks, outcome) ==
    [Invocation("invoke_async", self, overflow_checks, outcome)
        EXCEPT !.args = <<>>]

Script_invoke_async(self, overflow_checks, outcome) ==
    Invocation("invoke_async", self, overflow_checks, outcome)

\* the inherent Chain2::invoke, which method resolution prefers
Chain2_invoke(self, overflow_checks, outcome) ==
    Invocation("invoke", self, overflow_checks, outcome)

-----------------------------------------------------------------------------
(* The call site: the values it holds (stack, the newest last) and the     *)
(* invocation it made in its last step                                      *)

\* the two Info of the tests (generated; generated_join and generated_join3)
ScriptText ==
    "local _a1 = ARGV[1]; local _a2 = ARGV[2]; local _a3 = ARGV[3]; local _a4 = ARGV[4]; return _a1 - _a2 - _a3 + _a4;"
BodyText == "return _a1 - _a2 - _a3 + _a4;"
Templates ==
    { Info_new(ScriptText, BodyText, <<"_a1", "_a2", "_a3", "_b4">>),
      Info_new(ScriptText, BodyText, <<"_a1", "_a2", "_a3", "_a4">>) }

\* let x = 10; let y = -2;
CapturedX == {10}
CapturedY == {-2}
\* values the tests bind with a, and with b
AVals == {3, 11}
BVals == {-4}

\* what ConnectionLike can answer
Outcomes == {"reply", "error"}

RECURSIVE Size(_)
Size(o) ==
    CASE o.kind = "Unit" -> 1
      [] o.kind = "ScriptJoin" -> 1 + Size(o.s0) + Size(o.s1)
      [] o.kind \in {"Chain0", "Chain1", "Chain2"} -> 1 + Size(o.inner)
      [] o.kind = "PartialChain0" -> 1 + Size(o.script) + Size(o.next)
      [] o.kind = "PartialChain1" -> 1 + Size(o.chain) + Size(o.next)

RECURSIVE StackSize(_)
StackSize(st) == IF st = <<>> THEN 0 ELSE Size(Head(st)) + StackSize(Tail(st))

Top == stack[Len(stack)]
Second == stack[Len(stack) - 1]
Pop(n) == SubSeq(stack, 1, Len(stack) - n)
Room(n) == StackSize(stack) + n <= MaxNodes

Init ==
    /\ stack = <<>>
    /\ invocation = NoInvocation
    /\ gen_in = <<>>
    /\ gen_out = NotRun

Building == /\ invocation' = NoInvocation
            /\ UNCHANGED <<gen_in, gen_out>>

\* Chain0::new(info, (), x, y)
New ==
    /\ Len(stack) < MaxStack /\ Room(2)
    /\ \E info \in Templates, a1 \in CapturedX, a3 \in CapturedY :
          stack' = Append(stack, Chain0_new(info, Unit, a1, a3))
    /\ Building

\* the expression ()
Empty ==
    /\ Len(stack) < MaxStack /\ Room(1)
    /\ stack' = Append(stack, Unit)
    /\ Building

\* top.clone()
Clone ==
    /\ stack # <<>> /\ Len(stack) < MaxStack
    /\ IsClone(Top) /\ Room(Size(Top))
    /\ stack' = Append(stack, Top)
    /\ Building

\* top.a(var)
BindA ==
    /\ stack # <<>> /\ HasA(Top)
    /\ \E var \in AVals : stack' = Append(Pop(1), A(Top, var))
    /\ Building

\* top.b(var)
BindB ==
    /\ stack # <<>> /\ HasB(Top)
    /\ \E var \in BVals : stack' = Append(Pop(1), B(Top, var))
    /\ Building

\* second + top
AddOp ==
    /\ Len(stack) >= 2 /\ IsAdd(Second) /\ Room(1)
    /\ stack' = Append(Pop(2), Add(Second, Top))
    /\ Building

\* second.take(top)
TakeOp ==
    /\ Len(stack) >= 2 /\ IsTakeScript(Second) /\ IsScript(Top) /\ Room(1)
    /\ stack' = Append(Pop(2), Take(Second, Top))
    /\ Building

\* second.join(top)
JoinOp ==
    /\ Len(stack) >= 2 /\ IsScript(Second) /\ IsScript(Top) /\ Room(1)
    /\ stack' = Append(Pop(2), Script_join(Second, Top))
    /\ Building

\* top.invoke(con)
Invoke ==
    /\ stack # <<>> /\ IsScript(Top)
    /\ \E overflow_checks \in BOOLEAN, outcome \in Outcomes :
          invocation' = IF Top.kind = "Chain2"
                        THEN Chain2_invoke(Top, overflow_checks, outcome)
                        ELSE Script_invoke(Top, overflow_checks, outcome)
    /\ stack' = Pop(1)
    /\ UNCHANGED <<gen_in, gen_out>>

\* top.invoke_async(con)
InvokeAsync ==
    /\ stack # <<>> /\ IsScript(Top)
    /\ \E overflow_checks \in BOOLEAN, outcome \in Outcomes :
          invocation' = Script_invoke_async(Top, overflow_checks, outcome)
    /\ stack' = Pop(1)
    /\ UNCHANGED <<gen_in, gen_out>>

Next ==
    \/ New \/ Empty \/ Clone \/ BindA \/ BindB
    \/ AddOp \/ TakeOp \/ JoinOp \/ Invoke \/ InvokeAsync

Spec == Init /\ [][Next]_vars

\* Info::new and Chain0::new take any Info: beside an Info of the tests, one
\* that declares two names for a chain that holds four values
AnyTemplates ==
    { Info_new(ScriptText, BodyText, <<"_a1", "_a2", "_a3", "_a4">>),
      Info_new("local a = ARGV[1] local b = ARGV[2] return a - b",
               "return a - b", <<"a", "b">>) }

\* Chain0::new(info, (), x, y) with any Info
NewAny ==
    /\ Len(stack) < MaxStack /\ Room(2)
    /\ \E info \in AnyTemplates, a1 \in CapturedX, a3 \in CapturedY :
          stack' = Append(stack, Chain0_new(info, Unit, a1, a3))
    /\ Building

NextAny ==
    \/ NewAny \/ Empty \/ Clone \/ BindA \/ BindB
    \/ AddOp \/ TakeOp \/ JoinOp \/ Invoke \/ InvokeAsync

SpecAny == Init /\ [][NextAny]_vars

-----------------------------------------------------------------------------
(* A call site that keeps a chain as a template and binds clones of it, as  *)
(* generated_join3 does with script, script2 and script3                    *)

\* a Clone that copies the template and leaves out the value bound with a
Clone_unbound(self) ==
    CASE self.kind = "Chain1" ->
            Chain0_new(self.info, self.inner, self.a1, self.a3)
      [] self.kind = "PartialChain1" ->
            PartialChain0_new(Chain0_new(self.chain.info, self.chain.inner,
                                         self.chain.a1, self.chain.a3),
                              self.next)
      [] OTHER -> self

\* #[derive(Clone)]: every field is cloned; Info holds &'static references
\* and the values are owned
Clone_clone(self) == self

\* Chain0::new(info, (), x, y) of the tests
UnboundChains ==
    {Chain0_new(info, Unit, a1, a3) :
        info \in Templates, a1 \in CapturedX, a3 \in CapturedY}

\* the chains a call site clones: one chain or the sum of two, unbound or
\* with the first argument bound
DupOriginals ==
    LET unbound == UnboundChains
                     \cup {Add(c, d) : c \in UnboundChains, d \in UnboundChains}
    IN  unbound \cup {A(c, var) : c \in unbound, var \in AVals}

InitDup ==
    /\ stack \in {<<c>> : c \in DupOriginals}
    /\ invocation = NoInvocation
    /\ gen_in = <<>>
    /\ gen_out = NotRun

\* let copy = script.clone();
CloneOriginal ==
    /\ Len(stack) < MaxStack
    /\ IsClone(stack[1])
    /\ stack' = Append(stack, Clone_clone(stack[1]))
    /\ Building

\* copy.a(var), on any of the clones
BindACopy ==
    /\ \E k \in 2 .. Len(stack), var \in AVals :
          /\ HasA(stack[k])
          /\ stack' = [stack EXCEPT ![k] = A(stack[k], var)]
    /\ Building

\* copy.b(var), on any of the clones
BindBCopy ==
    /\ \E k \in 2 .. Len(stack), var \in BVals :
          /\ HasB(stack[k])
          /\ stack' = [stack EXCEPT ![k] = B(stack[k], var)]
    /\ Building

NextDup == CloneOriginal \/ BindACopy \/ BindBCopy

SpecDup == InitDup /\ [][NextDup]_vars

-----------------------------------------------------------------------------
(* Reading a synthesized script back *)

RECURSIVE ParseDecimal(_)
ParseDecimal(digits) ==
    IF digits = <<>> THEN 0
    ELSE 10 * ParseDecimal(SubSeq(digits, 1, Len(digits) - 1))
           + digits[Len(digits)]

ScopeEnd == Lit(" end)();\n")
ScopeOpen == Lit("(function() ")
ReturnDirective == Lit("return ")

RECURSIVE SplitScopes(_, _)
\* the statements of a script, each ending with its " end)();\n"
SplitScopes(code, cur) ==
    IF code = <<>>
    THEN IF cur = <<>> THEN <<>> ELSE <<cur>>
    ELSE IF Head(code) = ScopeEnd
         THEN <<Append(cur, Head(code))>> \o SplitScopes(Tail(code), <<>>)
         ELSE SplitScopes(Tail(code), Append(cur, Head(code)))

Scopes(code) == SplitScopes(code, <<>>)

IsLocal(piece) == piece.kind = "local"
Locals(code) == SelectSeq(code, IsLocal)

\* the pieces of a scope between "(function() " and " end)();\n"
Inside(scope) ==
    LET open == CHOOSE k \in 1 .. Len(scope) : scope[k] = ScopeOpen
    IN  SubSeq(scope, open + 1, Len(scope) - 1)

WellFormedScope(scope) ==
    /\ \E k \in 1 .. Len(scope) : scope[k] = ScopeOpen
    /\ scope[Len(scope)] = ScopeEnd
    /\ scope[1] \in {ScopeOpen, ReturnDirective}

HasReturn(scope) == scope[1] = ReturnDirective

CountOf(code, piece) == Cardinality({k \in 1 .. Len(code) : code[k] = piece})

RECURSIVE ArgsBefore(_, _)
\* n1 + ... + n(i-1)
ArgsBefore(info, i) ==
    IF i <= 1 THEN 0 ELSE ArgsBefore(info, i - 1) + Len(info[i - 1].args)

TotalArgs(info) == ArgsBefore(info, Len(info) + 1)

Joined == gen_out.status = "ok" /\ Len(gen_in) >= 2

-----------------------------------------------------------------------------
(* What the server's Lua evaluates a sent script to.  A value is            *)
(* [ok |-> TRUE, val |-> n]; LuaError stands for the runtime error of       *)
(* arithmetic on nil                                                        *)

LuaValue(n) == [ok |-> TRUE, val |-> n]
LuaError == [ok |-> FALSE, val |-> 0]

\* the names the `local name = ARGV[j];` lines of a full text declare, the
\* j-th of them reading ARGV[j]
Prologue(script) ==
    IF script = ScriptText THEN <<"_a1", "_a2", "_a3", "_a4">> ELSE <<>>

\* the value of a body under the locals env; a name that no local declares
\* is a global, which is nil
LuaBody(body, env) ==
    IF body = BodyText /\ {"_a1", "_a2", "_a3", "_a4"} \subseteq DOMAIN env
    THEN LuaValue(env["_a1"] - env["_a2"] - env["_a3"] + env["_a4"])
    ELSE LuaError

\* the locals of a scope: every declared name with the ARGV position its
\* last declaration reads
ScopeEnv(scope, argv) ==
    LET locals == Locals(Inside(scope))
        names == {locals[k].text : k \in 1 .. Len(locals)}
        lastOf(n) == CHOOSE k \in 1 .. Len(locals) :
                        /\ locals[k].text = n
                        /\ \A m \in k + 1 .. Len(locals) : locals[m].text # n
    IN  [n \in {m \in names :
                  ParseDecimal(locals[lastOf(m)].index) \in 1 .. Len(argv)}
            |-> argv[ParseDecimal(locals[lastOf(n)].index)]]

\* the body of a scope is its last piece
ScopeBody(scope) ==
    LET inside == Inside(scope) IN inside[Len(inside)].text

LuaScope(scope, argv) == LuaBody(ScopeBody(scope), ScopeEnv(scope, argv))

\* the statements run in order: an error in any of them ends the script, and
\* the statement that starts with `return ` gives the reply
LuaReply(code, argv) ==
    LET scopes == Scopes(code)
        returning == {k \in 1 .. Len(scopes) : HasReturn(scopes[k])}
        first == CHOOSE k \in returning : \A m \in returning : k <= m
    IN  IF returning = {} THEN LuaError
        ELSE IF \E k \in 1 .. first : ~LuaScope(scopes[k], argv).ok
             THEN LuaError
             ELSE LuaScope(scopes[first], argv)

\* a fragment whose full text declares its arg_names, in order
WellFormed(info) == Prologue(info.script) = info.args

\* what a fragment's full text evaluates to on its own values
OwnValue(info, values) ==
    LuaBody(info.body,
            [n \in {info.args[j] : j \in 1 .. Len(info.args)} |->
                values[CHOOSE j \in 1 .. Len(info.args) : info.args[j] = n]])

-----------------------------------------------------------------------------
(* Claims about gen_script, checked under SpecGen *)

\* C1: in the script of two or more fragments, the j-th local binding of the
\* i-th fragment's scope binds the j-th declared name to ARGV[n1+...+n(i-1)+j];
\* over the whole script the bindings read positions 1, 2, ..., n1+...+nk in
\* that order, each once.
C1_OffsetCorrectness ==
    Joined =>
       LET scopes == Scopes(gen_out.code)
           all == Locals(gen_out.code)
       IN  /\ Len(scopes) = Len(gen_in)
           /\ \A i \in 1 .. Len(gen_in) :
                 LET ls == Locals(scopes[i])
                     args == gen_in[i].args
                 IN  /\ Len(ls) = Len(args)
                     /\ \A j \in 1 .. Len(args) :
                           /\ ls[j].text = args[j]
                           /\ ParseDecimal(ls[j].index)
                                 = ArgsBefore(gen_in, i) + j
           /\ Len(all) = TotalArgs(gen_in)
           /\ \A p \in 1 .. Len(all) : ParseDecimal(all[p].index) = p

\* three fragments declaring 2, 1 and 2 arguments: the last binding is
\* `local b = ARGV[5]`
C1_Witness ==
    /\ Joined
    /\ Len(gen_in) = 3
    /\ Len(gen_in[1].args) = 2
    /\ Len(gen_in[2].args) = 1
    /\ Len(gen_in[3].args) = 2
    /\ Locals(Scopes(gen_out.code)[3]) = <<FormatLocal("a", 4), FormatLocal("b", 5)>>

\* C3: in the script of two or more fragments every fragment's scope is
\* emitted with its body, in order; the last scope and no other starts with
\* `return `, and the script holds that directive exactly once.
C3_ResultSelection ==
    Joined =>
       LET scopes == Scopes(gen_out.code)
       IN  /\ Len(scopes) = Len(gen_in)
           /\ \A i \in 1 .. Len(gen_in) :
                 /\ WellFormedScope(scopes[i])
                 /\ Inside(scopes[i])
                       = Locals(scopes[i]) \o Str(" ") \o Str(gen_in[i].body)
                 /\ HasReturn(scopes[i]) <=> i = Len(gen_in)
           /\ CountOf(gen_out.code, ReturnDirective) = 1

\* three fragments: the first two scopes carry no return, the third does
C3_Witness ==
    /\ Joined
    /\ Len(gen_in) = 3
    /\ gen_in[1].body = "return 7"
    /\ ~HasReturn(Scopes(gen_out.code)[1])
    /\ ~HasReturn(Scopes(gen_out.code)[2])
    /\ HasReturn(Scopes(gen_out.code)[3])

-----------------------------------------------------------------------------
(* Reading a unit or a chain back *)

RECURSIVE Leaves(_)
\* the fully bound chains of a unit: those of the inner or left unit first,
\* the unit's own last
Leaves(o) ==
    CASE o.kind = "Unit" -> <<>>
      [] o.kind = "ScriptJoin" -> Leaves(o.s0) \o Leaves(o.s1)
      [] OTHER -> Leaves(o.inner) \o <<o>>

\* the values of a fully bound chain, in the declared order of its arguments
\* (@a is a1, $a is a2, @b is a3, $b is a4)
ValuesOf(c) == <<c.a1, c.a2, c.a3, c.a4>>

Invoked == invocation.kind # "none"
Sent == Invoked /\ invocation.result # "panic"

TopOf(st) == st[Len(st)]

\* the chain whose arguments are being bound
HeadChain(o) ==
    CASE o.kind = "PartialChain0" -> o.script
      [] o.kind = "PartialChain1" -> o.chain
      [] OTHER -> o

IsChain(o) ==
    o.kind \in {"Chain0", "Chain1", "Chain2", "PartialChain0", "PartialChain1"}

\* the next argument to bind: "a", "b" or "done"
Stage(o) ==
    LET c == HeadChain(o)
    IN  IF "a2" \notin DOMAIN c THEN "a"
        ELSE IF "a4" \notin DOMAIN c THEN "b" ELSE "done"

RECURSIVE IsUnboundSum(_)
\* T1 + ... + Tk of chains none of whose arguments is bound
IsUnboundSum(o) ==
    CASE o.kind = "Chain0" -> TRUE
      [] o.kind = "PartialChain0" -> IsUnboundSum(o.next)
      [] OTHER -> FALSE

\* a sum of chains, the first of them possibly part bound
IsSum(o) ==
    CASE o.kind \in {"Chain0", "Chain1"} -> TRUE
      [] o.kind \in {"PartialChain0", "PartialChain1"} -> IsUnboundSum(o.next)
      [] OTHER -> FALSE

RECURSIVE Pending(_)
\* the fragments of a sum that still have an unbound argument, in join order
Pending(o) ==
    CASE o.kind \in {"Chain0", "Chain1"} -> <<o.info>>
      [] o.kind \in {"PartialChain0", "PartialChain1"} ->
            <<HeadChain(o).info>> \o Pending(o.next)
      [] OTHER -> <<>>

RECURSIVE Frags(_)
\* every fragment occurrence a value holds, in join order
Frags(o) ==
    CASE o.kind = "Unit" -> <<>>
      [] o.kind = "ScriptJoin" -> Frags(o.s0) \o Frags(o.s1)
      [] o.kind \in {"PartialChain0", "PartialChain1"} ->
            Frags(HeadChain(o)) \o Frags(o.next)
      [] OTHER -> Frags(o.inner) \o <<o.info>>

Bound(v) == [bound |-> TRUE, val |-> v]
Unbound == [bound |-> FALSE, val |-> 0]

RECURSIVE Slots(_)
\* one slot per declared argument of every fragment occurrence, in join order
Slots(o) ==
    CASE o.kind = "Unit" -> <<>>
      [] o.kind = "ScriptJoin" -> Slots(o.s0) \o Slots(o.s1)
      [] o.kind \in {"PartialChain0", "PartialChain1"} ->
            Slots(HeadChain(o)) \o Slots(o.next)
      [] OTHER ->
            Slots(o.inner)
              \o << Bound(o.a1),
                    IF "a2" \in DOMAIN o THEN Bound(o.a2) ELSE Unbound,
                    Bound(o.a3),
                    IF "a4" \in DOMAIN o THEN Bound(o.a4) ELSE Unbound >>

\* the slots with `var` in the first unbound one
FillFirst(slots, var) ==
    LET first == CHOOSE k \in 1 .. Len(slots) :
                    /\ ~slots[k].bound
                    /\ \A m \in 1 .. k - 1 : slots[m].bound
    IN  [slots EXCEPT ![first] = Bound(var)]

SlotValues(slots) == [k \in 1 .. Len(slots) |-> slots[k].val]

StackElems == {stack[k] : k \in 1 .. Len(stack)}

\* the ARGV position a name resolves to inside a scope: the one its last
\* declaration in that scope reads
Resolve(scope, name) ==
    LET locals == Locals(Inside(scope))
        k == CHOOSE k \in 1 .. Len(locals) :
                /\ locals[k].text = name
                /\ \A m \in k + 1 .. Len(locals) : locals[m].text # name
    IN  ParseDecimal(locals[k].index)

\* C14: the script of two or more fragments has one function scope per
\* fragment; every local binding lies inside a scope, the i-th scope holds
\* exactly the bindings of the i-th fragment's declared names followed by
\* its body, and inside the i-th scope each declared name resolves to the
\* i-th fragment's own position n1+...+n(i-1)+j, whatever the other
\* fragments declare.
C14_ScopeIsolation ==
    Joined =>
       LET scopes == Scopes(gen_out.code)
       IN  /\ Len(scopes) = Len(gen_in)
           /\ \A i \in 1 .. Len(scopes) :
                 /\ WellFormedScope(scopes[i])
                 /\ CountOf(scopes[i], ScopeOpen) = 1
                 /\ CountOf(scopes[i], ScopeEnd) = 1
                 /\ LET inside == Inside(scopes[i])
                        args == gen_in[i].args
                    IN  /\ Len(Locals(scopes[i])) = Len(args)
                        /\ Len(inside) >= Len(args)
                        /\ \A j \in 1 .. Len(args) :
                              /\ IsLocal(inside[j])
                              /\ inside[j].text = args[j]
                        /\ SubSeq(inside, Len(args) + 1, Len(inside))
                              = Str(" ") \o Str(gen_in[i].body)
                        /\ \A j \in 1 .. Len(args) :
                              Resolve(scopes[i], args[j])
                                 = ArgsBefore(gen_in, i) + j

\* two fragments that both declare "a": the name resolves to position 1 in
\* the first scope and to position 2 in the second
C14_Witness ==
    /\ Joined
    /\ Len(gen_in) = 2
    /\ gen_in[1].args = <<"a">>
    /\ gen_in[2].args = <<"a", "b">>
    /\ Resolve(Scopes(gen_out.code)[1], "a") = 1
    /\ Resolve(Scopes(gen_out.code)[2], "a") = 2

-----------------------------------------------------------------------------
(* Claims about units and chains, checked under Spec *)

C4_SingleFragmentIdentity ==
    (Invoked /\ Len(Leaves(invocation.self)) = 1) =>
       /\ invocation.script.status = "ok"
       /\ invocation.script.code
             = <<Lit(Leaves(invocation.self)[1].info.script)>>

\* a chain joined on the right of the empty unit has been invoked
C4_Witness ==
    /\ Invoked
    /\ invocation.self.kind = "ScriptJoin"
    /\ invocation.self.s0 = Unit
    /\ invocation.self.s1.kind = "Chain2"
    /\ invocation.self.s1.info.args[4] = "_b4"
    /\ invocation.script.code = <<Lit(ScriptText)>>

\* C5: while the newest value is a chain with an unbound argument, neither
\* invoke nor invoke_async is enabled on it; if its next argument is the first
\* one, a is enabled and b is not; if it is the second one, a is not enabled.
C5_OrderingEnforcement ==
    (stack # <<>> /\ IsChain(Top) /\ Stage(Top) # "done") =>
       /\ ~ENABLED Invoke
       /\ ~ENABLED InvokeAsync
       /\ Stage(Top) = "a" => (ENABLED BindA /\ ~ENABLED BindB)
       /\ Stage(Top) = "b" => ~ENABLED BindA
       /\ (Stage(Top) = "b" /\ Top.kind = "Chain1") => ENABLED BindB

\* the chain handed back after the first fragment of a join was bound: its
\* inner unit holds a fully bound chain and its own arguments are unbound
C5_Witness ==
    /\ stack # <<>>
    /\ Top.kind = "PartialChain0"
    /\ Stage(Top) = "a"
    /\ Len(Leaves(Top.script.inner)) = 1

\* C6: on a sum of chains, a is accepted only when the first argument is next
\* and leaves the same fragments pending with the second argument next; b is
\* accepted only when the second argument is next and removes the first
\* pending fragment: if another one is pending the result is not invocable and
\* has the first argument of that fragment next, else it is an invocable unit.
C6_BindingOrder ==
    [][ /\ (BindA /\ IsSum(Top)) =>
              /\ Stage(Top) = "a"
              /\ Stage(TopOf(stack')) = "b"
              /\ Pending(TopOf(stack')) = Pending(Top)
              /\ ~IsScript(TopOf(stack'))
        /\ (BindB /\ IsSum(Top)) =>
              /\ Stage(Top) = "b"
              /\ Pending(TopOf(stack')) = Tail(Pending(Top))
              /\ Pending(TopOf(stack')) # <<>> =>
                    /\ Stage(TopOf(stack')) = "a"
                    /\ IsSum(TopOf(stack'))
                    /\ ~IsScript(TopOf(stack'))
              /\ Pending(TopOf(stack')) = <<>> =>
                    /\ TopOf(stack').kind = "Chain2"
                    /\ IsScript(TopOf(stack')) ]_vars

\* the unit finalized from a sum of three chains of different Info
C6_Witness ==
    /\ stack # <<>>
    /\ Top.kind = "Chain2"
    /\ Top.inner.kind = "ScriptJoin"
    /\ Top.inner.s1 = Unit
    /\ Top.inner.s0.kind = "Chain2"
    /\ Top.inner.s0.inner.kind = "ScriptJoin"
    /\ Top.inner.s0.inner.s1 = Unit
    /\ Top.inner.s0.inner.s0.kind = "Chain2"
    /\ Top.inner.s0.inner.s0.inner = Unit
    /\ Top.info # Top.inner.s0.info

\* C7: a, b, + and take never drop, repeat or reorder a fragment occurrence:
\* binding keeps the occurrences and fills the first unbound slot in join
\* order with the value supplied, + puts the right operand's occurrences after
\* the left one's, take puts the completed unit's occurrences before the
\* chain's; and the unit a bind finalizes reports exactly those occurrences
\* through info() and those slots through apply().
C7_FragmentConservation ==
    [][ /\ \A var \in AVals :
              (BindA /\ stack' = Append(Pop(1), A(Top, var))) =>
                 /\ Frags(TopOf(stack')) = Frags(Top)
                 /\ Slots(TopOf(stack')) = FillFirst(Slots(Top), var)
        /\ \A var \in BVals :
              (BindB /\ stack' = Append(Pop(1), B(Top, var))) =>
                 /\ Frags(TopOf(stack')) = Frags(Top)
                 /\ Slots(TopOf(stack')) = FillFirst(Slots(Top), var)
                 /\ IsScript(TopOf(stack')) =>
                       /\ InfoOf(TopOf(stack')) = Frags(Top)
                       /\ ApplyOf(TopOf(stack'))
                             = SlotValues(FillFirst(Slots(Top), var))
        /\ AddOp =>
              /\ Frags(TopOf(stack')) = Frags(Second) \o Frags(Top)
              /\ Slots(TopOf(stack')) = Slots(Second) \o Slots(Top)
        /\ TakeOp =>
              /\ Frags(TopOf(stack')) = Frags(Top) \o Frags(Second)
              /\ Slots(TopOf(stack')) = Slots(Top) \o Slots(Second) ]_vars

\* a chain that took two different completed units, the later one first
C7_Witness ==
    /\ stack # <<>>
    /\ Top.kind = "Chain0"
    /\ Top.inner.kind = "ScriptJoin"
    /\ Top.inner.s0.kind = "Chain2"
    /\ Top.inner.s1.kind = "ScriptJoin"
    /\ Top.inner.s1.s0.kind = "Chain2"
    /\ Top.inner.s1.s0 # Top.inner.s0

\* the same unit of a ScriptJoin tree regrouped the other way
Regrouped(o) ==
    IF o.s0.kind = "ScriptJoin"
    THEN Script_join(o.s0.s0, Script_join(o.s0.s1, o.s1))
    ELSE Script_join(Script_join(o.s0, o.s1.s0), o.s1.s1)

Nested(o) ==
    /\ o.kind = "ScriptJoin"
    /\ o.s0.kind = "ScriptJoin" \/ o.s1.kind = "ScriptJoin"

\* C8: a unit join(join(A,B),C) or join(A,join(B,C)) that the call site holds
\* reports the same Info list, appends the same arguments and is synthesized
\* to the same script as the unit grouped the other way.
C8_JoinAssociative ==
    \A o \in StackElems :
       Nested(o) =>
          /\ InfoOf(o) = InfoOf(Regrouped(o))
          /\ ApplyOf(o) = ApplyOf(Regrouped(o))
          /\ \A overflow_checks \in BOOLEAN :
                gen_script(InfoOf(o), overflow_checks)
                   = gen_script(InfoOf(Regrouped(o)), overflow_checks)

\* join(join(A,B),C) of three fully bound chains
C8_Witness ==
    /\ stack # <<>>
    /\ Top.kind = "ScriptJoin"
    /\ Top.s0.kind = "ScriptJoin"
    /\ Top.s0.s0.kind = "Chain2"
    /\ Top.s0.s1.kind = "Chain2"
    /\ Top.s1.kind = "Chain2"
    /\ Top.s0.s0.info # Top.s0.s1.info
    /\ Top.s0.s1.a2 # Top.s1.a2

\* A, when o is join((), A) or join(A, ())
Other(o) == IF o.s0 = Unit THEN o.s1 ELSE o.s0

\* the units the call site holds, and each of them joined with () on either
\* side
WithEmpty ==
    {o \in StackElems : o.kind = "ScriptJoin" /\ (o.s0 = Unit \/ o.s1 = Unit)}
       \cup {Script_join(Unit, a) : a \in {e \in StackElems : IsScript(e)}}
       \cup {Script_join(a, Unit) : a \in {e \in StackElems : IsScript(e)}}

\* C9: for every unit A, join((), A) and join(A, ()) report A's Info list,
\* append A's arguments and are synthesized to A's script.
C9_EmptyIsIdentity ==
    \A o \in WithEmpty :
       /\ InfoOf(o) = InfoOf(Other(o))
       /\ ApplyOf(o) = ApplyOf(Other(o))
       /\ \A overflow_checks \in BOOLEAN :
             gen_script(InfoOf(o), overflow_checks)
                = gen_script(InfoOf(Other(o)), overflow_checks)

\* the call site holds join((), B) and join(A, ()), A and B fully bound chains
C9_Witness ==
    /\ Len(stack) = 2
    /\ Top.kind = "ScriptJoin"
    /\ Top.s1 = Unit
    /\ Top.s0.kind = "Chain2"
    /\ Second.kind = "ScriptJoin"
    /\ Second.s0 = Unit
    /\ Second.s1.kind = "Chain2"

\* C10: every invoke synthesizes a script; none ends in a panic.
C10_GenScriptTotal == Invoked => invocation.script.status = "ok"

\* C13: whenever a unit of two or more well-formed fragments is sent, the
\* script evaluates to what the last fragment's own text evaluates to on the
\* four values of the last fully bound chain, and the number of values sent
\* is the sum of the fragments' declared argument counts.
C13_EndToEndResult ==
    (/\ Sent
     /\ Len(invocation.info) >= 2
     /\ \A i \in 1 .. Len(invocation.info) : WellFormed(invocation.info[i]))
    => LET leaves == Leaves(invocation.self)
           last == leaves[Len(leaves)]
       IN  /\ LuaReply(invocation.script.code, invocation.args)
                 = OwnValue(last.info, ValuesOf(last))
           /\ LuaReply(invocation.script.code, invocation.args).ok
           /\ Len(invocation.args) = TotalArgs(invocation.info)

\* generated_join: the reply is 10 - 11 - (-2) + (-4) = -3, and the first
\* fragment's own values would have given another number
C13_Witness ==
    /\ Sent
    /\ Len(invocation.info) = 2
    /\ \A i \in 1 .. 2 : WellFormed(invocation.info[i])
    /\ LuaReply(invocation.script.code, invocation.args) = LuaValue(0 - 3)
    /\ OwnValue(invocation.info[1], SubSeq(invocation.args, 1, 4))
          # LuaValue(0 - 3)
    /\ Len(invocation.args) = 8

RECURSIVE Parts(_)
\* a value and every value it holds
Parts(o) ==
    {o} \cup
    CASE o.kind = "Unit" -> {}
      [] o.kind = "ScriptJoin" -> Parts(o.s0) \cup Parts(o.s1)
      [] o.kind = "PartialChain0" -> Parts(o.script) \cup Parts(o.next)
      [] o.kind = "PartialChain1" -> Parts(o.chain) \cup Parts(o.next)
      [] OTHER -> Parts(o.inner)

\* C15 as stated: on a fully bound unit of one or more fragments nothing but
\* invocation is enabled.
C15_InvocationOnly ==
    (stack # <<>> /\ IsScript(Top) /\ Frags(Top) # <<>>) =>
       ~ENABLED (BindA \/ BindB \/ Clone \/ AddOp \/ TakeOp \/ JoinOp)

\* C15, amended: a fully bound unit has no bind operation; every step leaves
\* each unit the call site holds either where it was, or whole and unchanged
\* inside a value the step made (join, take, +), or handed to the invocation
\* the step made.
C15_TerminalState ==
    /\ []((stack # <<>> /\ IsScript(Top)) =>
             /\ ~HasA(Top) /\ ~HasB(Top)
             /\ ~ENABLED BindA /\ ~ENABLED BindB)
    /\ [][\A k \in 1 .. Len(stack) :
             IsScript(stack[k]) =>
                \/ \E m \in 1 .. Len(stack') : stack[k] \in Parts(stack'[m])
                \/ /\ invocation'.kind # "none"
                   /\ invocation'.self = stack[k]
                   /\ k = Len(stack)]_vars

\* two fully bound chains joined: both are held, whole, by the join
C15_Witness ==
    /\ stack # <<>>
    /\ Top.kind = "ScriptJoin"
    /\ Top.s0.kind = "Chain2"
    /\ Top.s1.kind = "Chain2"
    /\ IsScript(Top)

\* C16: every invoke makes exactly one call to the client, with every value
\* of the unit appended, and returns what the client answered.
C16_SingleAttempt ==
    Invoked =>
       /\ invocation.calls = 1
       /\ invocation.result \in Outcomes
       /\ invocation.args = ApplyOf(invocation.self)

\* what invoke, of whichever impl method resolution picks, hands the client
BlockingInvoke(self, overflow_checks, outcome) ==
    IF self.kind = "Chain2"
    THEN Chain2_invoke(self, overflow_checks, outcome)
    ELSE Script_invoke(self, overflow_checks, outcome)

\* C17: every invocation that was made is what invoke or invoke_async makes
\* of its unit, and for that unit invoke and invoke_async hand the client
\* the same script and the same values in the same order.
C17_InvokeAsyncSame ==
    Invoked =>
       /\ \E overflow_checks \in BOOLEAN :
             invocation \in
                {BlockingInvoke(invocation.self, overflow_checks,
                                invocation.result),
                 Script_invoke_async(invocation.self, overflow_checks,
                                     invocation.result)}
       /\ \A overflow_checks \in BOOLEAN, outcome \in Outcomes :
             LET blocking == BlockingInvoke(invocation.self, overflow_checks,
                                            outcome)
                 async == Script_invoke_async(invocation.self,
                                              overflow_checks, outcome)
             IN  /\ blocking.script = async.script
                 /\ blocking.args = async.args
                 /\ blocking.calls = async.calls

\* invoke_async of a join of two fully bound chains
C17_Witness ==
    /\ Invoked
    /\ invocation.kind = "invoke_async"
    /\ invocation.self.kind = "ScriptJoin"
    /\ Len(invocation.info) = 2
    /\ Len(invocation.args) = 8
    /\ invocation.args[2] # invocation.args[6]

RECURSIVE Chains(_)
\* the chains of an unbound sum, left to right
Chains(o) ==
    IF o.kind = "PartialChain0" THEN <<o.script>> \o Chains(o.next)
    ELSE <<o>>

RECURSIVE RightNested(_)
\* c1 + (c2 + (... + ck))
RightNested(chains) ==
    IF Len(chains) = 1 THEN chains[1]
    ELSE PartialChain0_new(Head(chains), RightNested(Tail(chains)))

\* C18: for unbound chains A, B, C held by the call site, (A + B) + C and
\* A + (B + C) are the same value, with A first and B + C as the remainder;
\* and every + of two unbound sums gives the right-nested sum of the chains
\* of the left operand followed by those of the right operand, however each
\* operand was grouped.
C18_AddGrouping ==
    /\ []((/\ Len(stack) = 3
           /\ \A k \in 1 .. 3 : stack[k].kind = "Chain0")
          => /\ Add(Add(stack[1], stack[2]), stack[3])
                   = Add(stack[1], Add(stack[2], stack[3]))
             /\ Add(Add(stack[1], stack[2]), stack[3]).script = stack[1]
             /\ Add(Add(stack[1], stack[2]), stack[3]).next
                   = Add(stack[2], stack[3]))
    /\ [][(AddOp /\ IsUnboundSum(Second) /\ IsUnboundSum(Top)) =>
             /\ TopOf(stack') = RightNested(Chains(Second) \o Chains(Top))
             /\ Pending(TopOf(stack')) = Pending(Second) \o Pending(Top)]_vars

\* the sum of three chains, the first two of different fragments
C18_Witness ==
    /\ stack # <<>>
    /\ IsUnboundSum(Top)
    /\ Len(Chains(Top)) = 3
    /\ Top.script.info # Top.next.script.info

-----------------------------------------------------------------------------
(* Claims checked under SpecAny *)

\* the values a fully bound chain holds: its fields a1 .. a4
ValueFields(c) == DOMAIN c \ {"kind", "info", "inner"}

\* the values apply() appends for one chain of a unit
AppendedFor(c) == Chain2_apply(c, <<>>)

\* C11 as stated: whenever a unit is sent, apply() appends for every fragment
\* as many values as the fragment's Info declares names, whatever Info the
\* chain was constructed with.
C11_ArityAnyInfo ==
    Sent =>
       /\ \A i \in 1 .. Len(Leaves(invocation.self)) :
             Len(AppendedFor(Leaves(invocation.self)[i]))
                = Len(invocation.info[i].args)
       /\ Len(invocation.args) = TotalArgs(invocation.info)

\* C11 as amended: whenever a unit is sent, apply() appends for every
\* fragment whose Info declares one name per value field of its chain as many
\* values as that Info declares names; if every fragment's Info does, the
\* arguments sent are as many as the names declared.
C11_ArityMatchingInfo ==
    Sent =>
       LET ls == Leaves(invocation.self)
           matching(i) == Len(ls[i].info.args) = Cardinality(ValueFields(ls[i]))
       IN  /\ \A i \in 1 .. Len(ls) :
                 matching(i) =>
                    Len(AppendedFor(ls[i])) = Len(invocation.info[i].args)
           /\ (\A i \in 1 .. Len(ls) : matching(i)) =>
                 Len(invocation.args) = TotalArgs(invocation.info)

\* a unit of two chains, both constructed with an Info of four names, was sent
C11_Witness ==
    /\ Sent
    /\ Len(invocation.info) = 2
    /\ Len(invocation.info[1].args) = 4
    /\ Len(invocation.info[2].args) = 4
    /\ Len(invocation.args) = 8

-----------------------------------------------------------------------------
(* Claims checked under SpecDup *)

\* the clones agree with the chain they were cloned from: same fragment
\* occurrences, and the same value in every slot that was bound in it
Extends(x, c) ==
    /\ Frags(x) = Frags(c)
    /\ Len(Slots(x)) = Len(Slots(c))
    /\ \A p \in 1 .. Len(Slots(c)) :
          Slots(c)[p].bound => Slots(x)[p] = Slots(c)[p]

Copies == {stack[k] : k \in 2 .. Len(stack)}

====
